---- MODULE Spec2Model ----
(***************************************************************************)
(* TWR attribution engine of portfolio-manager:                            *)
(*   api/services/attribution.py, calculate_twr_attribution and its caller *)
(*   calculate_detailed_twr_attribution.                                   *)
(*                                                                         *)
(* Python floats are modelled as exact rationals <<n, d>> with d > 0 in    *)
(* lowest terms; None (a missing dict key, a missing price row) is the     *)
(* pair <<0, 0>>.  Dates are the integers 1..n; the requested window is    *)
(* start_date..n.                                                          *)
(***************************************************************************)
EXTENDS Integers, Sequences, FiniteSets, TLC

(***************************************************************************)
(* Bounds of the model.                                                    *)
(***************************************************************************)
MaxDates == 3
LongDays == 20

(***************************************************************************)
(* Rational arithmetic (the float operations of the source, exact).        *)
(***************************************************************************)
Abs(x) == IF x < 0 THEN -x ELSE x

RECURSIVE GCD(_, _)
GCD(a, b) == IF b = 0 THEN a ELSE GCD(b, a % b)

None == <<0, 0>>
Zero == <<0, 1>>
One == <<1, 1>>
Hundred == <<100, 1>>

Norm(n, d) ==
    IF n = 0 THEN Zero
    ELSE LET g == GCD(Abs(n), d) IN <<n \div g, d \div g>>

R(n) == <<n, 1>>

RAdd(x, y) ==
    LET g == GCD(x[2], y[2])
        l == (x[2] \div g) * y[2]
    IN  Norm(x[1] * (l \div x[2]) + y[1] * (l \div y[2]), l)

RNeg(x) == <<-x[1], x[2]>>

RSub(x, y) == RAdd(x, RNeg(y))

RMul(x, y) ==
    IF x[1] = 0 \/ y[1] = 0 THEN Zero
    ELSE LET g1 == GCD(Abs(x[1]), y[2])
             g2 == GCD(Abs(y[1]), x[2])
         IN  <<(x[1] \div g1) * (y[1] \div g2), (x[2] \div g2) * (y[2] \div g1)>>

\* x / y for y # 0
RDiv(x, y) ==
    IF y[1] > 0 THEN RMul(x, <<y[2], y[1]>>)
    ELSE RMul(x, <<-y[2], -y[1]>>)

RAbs(x) == <<Abs(x[1]), x[2]>>

RPos(x) == x[1] > 0
RNegative(x) == x[1] < 0
RLt(x, y) == RNegative(RSub(x, y))
RLe(x, y) == ~RPos(RSub(x, y))

IsNumber(x) == x \in Int \X Int /\ x[2] > 0

\* Python truthiness of an Optional[float]: None and 0.0 are falsy
Truthy(x) == x # None /\ x[1] # 0

RECURSIVE RSum(_, _)
\* sum(f[k] for k in S)
RSum(f, S) ==
    IF S = {} THEN Zero
    ELSE LET k == CHOOSE k \in S : TRUE
         IN  RAdd(f[k], RSum(f, S \ {k}))

(***************************************************************************)
(* The database content of one request: position rows and price rows of    *)
(* the portfolio, already restricted to [start_date, end_date].            *)
(***************************************************************************)
Assets == {1, 2}

\* the rows of the assets table (asset_class), one class per asset or one for both
TwoClasses == [a \in Assets |-> IF a = 1 THEN "Equity" ELSE "Bond"]
OneClass == [a \in Assets |-> "Equity"]

\* market values of the position rows of one date (None: no row)
HoldOpts ==
    { [a \in Assets |-> R(0)],
      [a \in Assets |-> IF a = 1 THEN R(60) ELSE None],
      [a \in Assets |-> IF a = 1 THEN R(0) ELSE R(40)],
      [a \in Assets |-> IF a = 1 THEN R(60) ELSE R(40)] }

BasePx == [a \in Assets |-> IF a = 1 THEN R(100) ELSE R(50)]
MovedPx == [a \in Assets |-> IF a = 1 THEN R(110) ELSE R(45)]

\* close prices of one date (None: no price row)
GoodPx == {BasePx, MovedPx}
DefectPx ==
    { [a \in Assets |-> IF a = 1 THEN None ELSE R(45)],
      [a \in Assets |-> IF a = 1 THEN R(0) ELSE R(45)] }

\* windows of 0..MaxDates snapshot dates, at most one date with a defective
\* price of asset 1
SmallInputs ==
    UNION { { [n |-> n, pos |-> p, px |-> x] :
                p \in [1..n -> HoldOpts],
                x \in { y \in [1..n -> GoodPx \cup DefectPx] :
                          Cardinality({d \in 1..n : y[d] \in DefectPx}) <= 1 } } :
            n \in 0..MaxDates }

\* windows of LongDays dates holding 60/40 throughout, prices moved on the
\* dates s..e
LongInputs ==
    { [n |-> LongDays,
       pos |-> [d \in 1..LongDays |-> [a \in Assets |-> IF a = 1 THEN R(60) ELSE R(40)]],
       px |-> [d \in 1..LongDays |-> IF s <= d /\ d <= e THEN MovedPx ELSE BasePx]] :
        s \in 2..LongDays, e \in 2..LongDays }

\* three dates on which the price of asset 1 goes up 10% and stays (asset 2
\* then goes up 10%), or goes up 10% and down 10%
TiePx == <<BasePx,
           [a \in Assets |-> IF a = 1 THEN R(110) ELSE R(50)],
           [a \in Assets |-> IF a = 1 THEN R(110) ELSE R(55)]>>
CancelPx == <<BasePx,
              [a \in Assets |-> IF a = 1 THEN R(110) ELSE R(50)],
              [a \in Assets |-> IF a = 1 THEN R(99) ELSE R(50)]>>

ExtraInputs ==
    { [n |-> 3, pos |-> p, px |-> x] : p \in [1..3 -> HoldOpts], x \in {TiePx, CancelPx} }

Inputs == SmallInputs \cup LongInputs \cup ExtraInputs

(***************************************************************************)
(* State: the tables, the request, and the locals of one call of           *)
(* calculate_twr_attribution and of calculate_detailed_twr_attribution.    *)
(***************************************************************************)
VARIABLES
    PortfolioPositionDaily, \* market_value of the row of (date, asset), None: no row
    Price,                  \* close of the row of (date, asset), None: no row
    Asset,                  \* asset_class of the row of each asset
    position_rows,          \* the rows of portfolio_positions_daily in id order, all columns
    PortfolioNavDaily,      \* the rows of portfolio_nav_daily in id order
    Transaction,            \* the rows of the transactions table
    trading_days,           \* run_full_snapshot_krx: the trading days of the range
    portfolio_ids,          \* run_full_snapshot_krx: the requested ids, None: all
    pids,                   \* run_full_snapshot_krx: the portfolio ids
    raising,                \* the (day, portfolio) pairs whose snapshot raises
    run_d,                  \* index into trading_days of the outer loop (from 1)
    run_p,                  \* index into pids of the inner loop (from 1)
    attempted,              \* the calls of snapshot_portfolio_date, in order
    logged,                 \* the pairs printed as [ERROR]
    all_nav_data,           \* performance.py: the NAV records, date ascending
    period,                 \* performance.py: <<start_date, end_date>>
    cumulative_return,      \* result of calculate_cumulative_return_with_extended_data
    period_daily_returns,   \* result of calculate_period_daily_returns_with_extended_data
    request,                \* the request of the specific-period endpoint
    status_code,            \* the HTTP status of its response
    start_date,             \* the first date of the requested window
    asset_filter,           \* "all", "domestic" or "foreign"
    positions,              \* rows of the query of the detailed function
    filtered_assets,
    detailed_result,        \* the dict returned by the detailed function
    previous_result,        \* the dict returned by an earlier call, if any
    pc,                     \* position in calculate_twr_attribution
    positions_by_date,      \* date -> asset -> market_value
    all_asset_ids,
    asset_order,            \* iteration order of the set all_asset_ids
    price_data,             \* date -> asset -> close
    sorted_dates,
    i,                      \* index into sorted_dates of the loop of step 5 (from 1)
    daily_returns,
    asset_contributions,
    total_twr,
    asset_details,
    asset_class_list,
    top_contributors,
    top_detractors,
    total_contribution_check

vars == <<PortfolioPositionDaily, Price, Asset, position_rows, PortfolioNavDaily,
          Transaction, trading_days, portfolio_ids, pids, raising, run_d, run_p,
          attempted, logged, all_nav_data, period, cumulative_return, period_daily_returns,
          request, status_code, start_date, asset_filter,
          positions, filtered_assets, detailed_result, previous_result,
          pc, positions_by_date, all_asset_ids,
          asset_order, price_data, sorted_dates, i, daily_returns,
          asset_contributions, total_twr, asset_details, asset_class_list,
          top_contributors, top_detractors, total_contribution_check>>

db == <<PortfolioPositionDaily, Price, Asset, position_rows, PortfolioNavDaily,
        Transaction>>

\* the state of the batch script, of the performance service and of the router
batch == <<trading_days, portfolio_ids, pids, raising, run_d, run_p, attempted, logged>>
perf == <<all_nav_data, period, cumulative_return, period_daily_returns>>
http == <<request, status_code>>
aux == <<batch, perf, http>>

\* the attribution service reads the market_value column only; no transaction
\* and no NAV row
NoSnapshotData ==
    /\ position_rows = <<>>
    /\ PortfolioNavDaily = <<>>
    /\ Transaction = {}

BatchIdle ==
    /\ trading_days = <<>>
    /\ portfolio_ids = None
    /\ pids = <<>>
    /\ raising = {}
    /\ run_d = 1
    /\ run_p = 1
    /\ attempted = <<>>
    /\ logged = <<>>

PerfIdle ==
    /\ all_nav_data = <<>>
    /\ period = <<1, 1>>
    /\ cumulative_return = None
    /\ period_daily_returns = <<>>

HttpIdle ==
    /\ request = <<>>
    /\ status_code = 0

\* the request and the locals of the caller
caller == <<start_date, asset_filter, positions, filtered_assets, detailed_result,
            previous_result>>

AssetClass == Asset

\* the locals before the call
InitLocals ==
    /\ positions = <<>>
    /\ filtered_assets = <<>>
    /\ detailed_result = <<>>
    /\ previous_result = <<>>
    /\ positions_by_date = <<>>
    /\ all_asset_ids = {}
    /\ asset_order = <<>>
    /\ price_data = <<>>
    /\ sorted_dates = <<>>
    /\ i = 1
    /\ daily_returns = <<>>
    /\ asset_contributions = <<>>
    /\ total_twr = None
    /\ asset_details = <<>>
    /\ asset_class_list = <<>>
    /\ top_contributors = <<>>
    /\ top_detractors = <<>>
    /\ total_contribution_check = None

\* the requested first dates: the first date of the tables or, for the
\* three-date windows, also the second one (a snapshot date precedes the window)
StartDates(inp) == IF inp \in ExtraInputs THEN {1, 2} ELSE {1}

\* one call of calculate_twr_attribution(db, portfolio_id, start_date, end_date)
Init ==
    /\ \E inp \in Inputs :
        /\ PortfolioPositionDaily = inp.pos
        /\ Price = inp.px
        /\ start_date \in StartDates(inp)
    /\ Asset = TwoClasses
    /\ asset_filter = "all"
    /\ pc = "start"
    /\ InitLocals
    /\ NoSnapshotData
    /\ BatchIdle
    /\ PerfIdle
    /\ HttpIdle

(***************************************************************************)
(* Helpers.                                                                *)
(***************************************************************************)
RECURSIVE SortedSeq(_)
\* sorted(S) for a set of dates
SortedSeq(S) ==
    IF S = {} THEN <<>>
    ELSE LET m == CHOOSE m \in S : \A k \in S : m <= k
         IN  <<m>> \o SortedSeq(S \ {m})

Perms(S) ==
    { q \in [1..Cardinality(S) -> S] : \A a \in S : \E k \in DOMAIN q : q[k] = a }

Range(q) == { q[k] : k \in DOMAIN q }

\* the dates and assets of the position rows returned by the query of step 1
RowDates == { d \in DOMAIN PortfolioPositionDaily :
                d >= start_date /\ \E a \in Assets : PortfolioPositionDaily[d][a] # None }
RowAssets == { a \in Assets : \E d \in RowDates : PortfolioPositionDaily[d][a] # None }

\* positions.get(asset_id, {}).get('market_value', 0.0)
MarketValue(pbd, d, a) == IF pbd[d][a] = None THEN Zero ELSE pbd[d][a]

\* sum(pos['market_value'] for pos in positions_by_date[d].values())
TotalMV(pbd, d) == RSum([a \in Assets |-> MarketValue(pbd, d, a)], Assets)

\* price_data.get((asset_id, d))
PriceGet(pd, a, d) == IF d \in DOMAIN pd THEN pd[d][a] ELSE None

RECURSIVE SeqSum(_, _)
\* sum of the field fld over a sequence of records, left to right
SeqSum(q, fld) ==
    IF q = <<>> THEN Zero
    ELSE RAdd(SeqSum(SubSeq(q, 1, Len(q) - 1), fld), q[Len(q)][fld])

(***************************************************************************)
(* Step 5: the daily computation (lines 98-139).                           *)
(***************************************************************************)
\* variant: every asset weighted equally
WeightPrev_EqualWeight(pbd, prev_date, a, prev_total_mv) ==
    RDiv(One, R(Cardinality(Assets)))

\* weight_prev = prev_mv / prev_total_mv if prev_total_mv > 0 else 0.0
WeightPrev(pbd, prev_date, a, prev_total_mv) ==
    IF RPos(prev_total_mv)
    THEN RDiv(MarketValue(pbd, prev_date, a), prev_total_mv)
    ELSE Zero

\* variant: the price ratio itself
AssetReturn_NoMinusOne(prev_price, curr_price) ==
    IF Truthy(prev_price) /\ Truthy(curr_price) /\ RPos(prev_price)
    THEN RDiv(curr_price, prev_price)
    ELSE Zero

\* variant: a missing current price read as 0.0
AssetReturn_MissingAsZero(prev_price, curr_price) ==
    IF Truthy(prev_price) /\ RPos(prev_price)
    THEN RSub(RDiv(IF curr_price = None THEN Zero ELSE curr_price, prev_price), One)
    ELSE Zero

\* asset_return of lines 120-125
AssetReturn(prev_price, curr_price) ==
    IF Truthy(prev_price) /\ Truthy(curr_price) /\ RPos(prev_price)
    THEN RSub(RDiv(curr_price, prev_price), One)
    ELSE Zero

\* variant: a missing previous price replaced by the price one date earlier
Contribution_LastKnownPrice(pbd, pd, prev_date, current_date, a) ==
    RMul(WeightPrev(pbd, prev_date, a, TotalMV(pbd, prev_date)),
         AssetReturn(IF PriceGet(pd, a, prev_date) = None
                     THEN PriceGet(pd, a, prev_date - 1)
                     ELSE PriceGet(pd, a, prev_date),
                     PriceGet(pd, a, current_date)))

\* variant: the weight of the current date
Contribution_CurrentWeight(pbd, pd, prev_date, current_date, a) ==
    RMul(WeightPrev(pbd, current_date, a, TotalMV(pbd, current_date)),
         AssetReturn(PriceGet(pd, a, prev_date), PriceGet(pd, a, current_date)))

\* contribution = weight_prev * asset_return for one asset on one boundary
Contribution(pbd, pd, prev_date, current_date, a) ==
    RMul(WeightPrev(pbd, prev_date, a, TotalMV(pbd, prev_date)),
         AssetReturn(PriceGet(pd, a, prev_date), PriceGet(pd, a, current_date)))

\* DailyPortfolioReturn(date, daily_return, portfolio_value)
DailyPortfolioReturn(d, r, v) == [date |-> d, daily_return |-> r, portfolio_value |-> v]

(***************************************************************************)
(* Steps 1-4 (lines 38-86): the queries and the grouping by date.          *)
(***************************************************************************)
RaiseNoPositions ==
    /\ pc = "start"
    /\ RowDates = {}
    /\ pc' = "raised"
    /\ UNCHANGED <<db, aux, caller, positions_by_date, all_asset_ids, asset_order, price_data,
                   sorted_dates, i, daily_returns, asset_contributions, total_twr,
                   asset_details, asset_class_list, top_contributors,
                   top_detractors, total_contribution_check>>

LoadData ==
    /\ pc = "start"
    /\ RowDates # {}
    /\ positions_by_date' = [d \in RowDates |-> PortfolioPositionDaily[d]]
    /\ all_asset_ids' = RowAssets
    /\ \E q \in Perms(RowAssets) : asset_order' = q
    /\ price_data' = [d \in { e \in DOMAIN Price : e >= start_date } |->
                        [a \in Assets |-> IF a \in RowAssets THEN Price[d][a] ELSE None]]
    /\ sorted_dates' = SortedSeq(RowDates)
    /\ daily_returns' = <<>>
    /\ asset_contributions' = [a \in RowAssets |-> Zero]
    /\ i' = 1
    /\ pc' = "loop"
    /\ UNCHANGED <<db, aux, caller, total_twr, asset_details, asset_class_list, top_contributors,
                   top_detractors, total_contribution_check>>

(***************************************************************************)
(* Step 5 (lines 88-139): one iteration of the loop over sorted_dates.     *)
(***************************************************************************)
\* i == 0 in the source: the first date, no return
FirstDay ==
    /\ pc = "loop"
    /\ i = 1
    /\ i <= Len(sorted_dates)
    /\ daily_returns' = Append(daily_returns,
            DailyPortfolioReturn(sorted_dates[i], Zero,
                                 TotalMV(positions_by_date, sorted_dates[i])))
    /\ i' = i + 1
    /\ UNCHANGED <<db, aux, caller, pc, positions_by_date, all_asset_ids, asset_order, price_data,
                   sorted_dates, asset_contributions, total_twr, asset_details,
                   asset_class_list, top_contributors, top_detractors,
                   total_contribution_check>>

\* variant: no guard, the division by the zero total raises
SkipDay_DivZero ==
    /\ pc = "loop"
    /\ i > 1
    /\ i <= Len(sorted_dates)
    /\ ~RPos(TotalMV(positions_by_date, sorted_dates[i - 1]))
    /\ pc' = "raised"
    /\ UNCHANGED <<db, aux, caller, positions_by_date, all_asset_ids, asset_order, price_data,
                   sorted_dates, i, daily_returns, asset_contributions, total_twr,
                   asset_details, asset_class_list, top_contributors,
                   top_detractors, total_contribution_check>>

\* prev_total_mv <= 0: continue
SkipDay ==
    /\ pc = "loop"
    /\ i > 1
    /\ i <= Len(sorted_dates)
    /\ ~RPos(TotalMV(positions_by_date, sorted_dates[i - 1]))
    /\ i' = i + 1
    /\ UNCHANGED <<db, aux, caller, pc, positions_by_date, all_asset_ids, asset_order, price_data,
                   sorted_dates, daily_returns, asset_contributions, total_twr,
                   asset_details, asset_class_list, top_contributors,
                   top_detractors, total_contribution_check>>

ProcessDay ==
    /\ pc = "loop"
    /\ i > 1
    /\ i <= Len(sorted_dates)
    /\ RPos(TotalMV(positions_by_date, sorted_dates[i - 1]))
    /\ LET prev_date == sorted_dates[i - 1]
           current_date == sorted_dates[i]
           contribution == [a \in all_asset_ids |->
                Contribution(positions_by_date, price_data, prev_date, current_date, a)]
           daily_portfolio_return == RSum(contribution, all_asset_ids)
       IN  /\ asset_contributions' = [a \in all_asset_ids |->
                    RAdd(asset_contributions[a], contribution[a])]
           /\ daily_returns' = Append(daily_returns,
                    DailyPortfolioReturn(current_date,
                                         RMul(daily_portfolio_return, Hundred),
                                         TotalMV(positions_by_date, current_date)))
    /\ i' = i + 1
    /\ UNCHANGED <<db, aux, caller, pc, positions_by_date, all_asset_ids, asset_order, price_data,
                   sorted_dates, total_twr, asset_details, asset_class_list,
                   top_contributors, top_detractors, total_contribution_check>>

(***************************************************************************)
(* Step 6 (lines 141-146): the period TWR.                                 *)
(***************************************************************************)
RECURSIVE Compound(_, _)
\* for dr in daily_returns: total_twr *= (1 + dr.daily_return / 100)
Compound(acc, drs) ==
    IF drs = <<>> THEN acc
    ELSE Compound(RMul(acc, RAdd(One, RDiv(Head(drs).daily_return, Hundred))), Tail(drs))

\* variant: the daily returns summed
TotalTwr_Summed(drs) == SeqSum(drs, "daily_return")

TotalTwr(drs) == RMul(RSub(Compound(One, drs), One), Hundred)

ComputeTotalTwr ==
    /\ pc = "loop"
    /\ i > Len(sorted_dates)
    /\ total_twr' = TotalTwr(daily_returns)
    /\ pc' = "details"
    /\ UNCHANGED <<db, aux, caller, positions_by_date, all_asset_ids, asset_order, price_data,
                   sorted_dates, i, daily_returns, asset_contributions, asset_details,
                   asset_class_list, top_contributors, top_detractors,
                   total_contribution_check>>

(***************************************************************************)
(* Step 7 (lines 148-201): the per-asset figures.                          *)
(***************************************************************************)
RECURSIVE WeightSum(_, _, _, _)
\* total_weight after the dates dates[1..k] (lines 160-168)
WeightSum(pbd, dates, k, a) ==
    IF k = 0 THEN Zero
    ELSE LET total_mv == TotalMV(pbd, dates[k])
         IN  IF RPos(total_mv)
             THEN RAdd(WeightSum(pbd, dates, k - 1, a),
                       RDiv(MarketValue(pbd, dates[k], a), total_mv))
             ELSE WeightSum(pbd, dates, k - 1, a)

\* weight_count over sorted_dates[:-1]
WeightCount(pbd, dates) ==
    Cardinality({ k \in 1..(Len(dates) - 1) : RPos(TotalMV(pbd, dates[k])) })

\* variant: the mean over the dates on which the asset is held
AvgWeight_HeldOnly(pbd, dates, a) ==
    LET held == { k \in 1..(Len(dates) - 1) :
                    RPos(TotalMV(pbd, dates[k])) /\ RPos(MarketValue(pbd, dates[k], a)) }
    IN  IF held # {}
        THEN RMul(RDiv(WeightSum(pbd, dates, Len(dates) - 1, a),
                       R(Cardinality(held))), Hundred)
        ELSE Zero

\* avg_weight (line 170)
AvgWeight(pbd, dates, a) ==
    IF WeightCount(pbd, dates) > 0
    THEN RMul(RDiv(WeightSum(pbd, dates, Len(dates) - 1, a),
                   R(WeightCount(pbd, dates))), Hundred)
    ELSE Zero

\* asset_return of lines 173-180: the asset's period return in percent
PeriodReturn(pd, dates, a) ==
    LET first_price == PriceGet(pd, a, dates[1])
        last_price == PriceGet(pd, a, dates[Len(dates)])
    IN  IF Truthy(first_price) /\ Truthy(last_price) /\ RPos(first_price)
        THEN RMul(RSub(RDiv(last_price, first_price), One), Hundred)
        ELSE Zero

\* variant: the allocation of the first date
CurrentAllocation_FirstDate(pbd, dates, a) ==
    LET total_first_mv == TotalMV(pbd, dates[1])
    IN  IF RPos(total_first_mv)
        THEN RMul(RDiv(MarketValue(pbd, dates[1], a), total_first_mv), Hundred)
        ELSE Zero

\* current_allocation (lines 183-187)
CurrentAllocation(pbd, dates, a) ==
    LET latest_date == dates[Len(dates)]
        total_latest_mv == TotalMV(pbd, latest_date)
    IN  IF RPos(total_latest_mv)
        THEN RMul(RDiv(MarketValue(pbd, latest_date, a), total_latest_mv), Hundred)
        ELSE Zero

\* variant: the fraction, not converted to percent
ContributionPct_Fraction(contribution) == contribution

\* contribution * 100 (line 199)
ContributionPct(contribution) == RMul(contribution, Hundred)

\* AssetContribution(...) of lines 191-200
AssetContribution(a) ==
    [asset_id |-> a,
     asset_class |-> AssetClass[a],
     current_allocation |-> CurrentAllocation(positions_by_date, sorted_dates, a),
     avg_weight |-> AvgWeight(positions_by_date, sorted_dates, a),
     period_return |-> PeriodReturn(price_data, sorted_dates, a),
     contribution |-> ContributionPct(asset_contributions[a])]

\* every asset of all_asset_ids has its Asset row (foreign key of the position rows)
BuildAssetDetails ==
    /\ pc = "details"
    /\ asset_details' = [k \in DOMAIN asset_order |-> AssetContribution(asset_order[k])]
    /\ pc' = "classes"
    /\ UNCHANGED <<db, aux, caller, positions_by_date, all_asset_ids, asset_order, price_data,
                   sorted_dates, i, daily_returns, asset_contributions, total_twr,
                   asset_class_list, top_contributors, top_detractors,
                   total_contribution_check>>

(***************************************************************************)
(* Step 8 (lines 203-226): aggregation by asset class.                     *)
(***************************************************************************)
RECURSIVE ClassOrder(_)
\* the asset classes in order of first appearance in the details
ClassOrder(details) ==
    IF details = <<>> THEN <<>>
    ELSE LET init == ClassOrder(SubSeq(details, 1, Len(details) - 1))
             ac == details[Len(details)].asset_class
         IN  IF ac \in Range(init) THEN init ELSE Append(init, ac)

\* the details of one class, in order
RECURSIVE ClassAssets(_, _)
ClassAssets(details, ac) ==
    IF details = <<>> THEN <<>>
    ELSE IF Head(details).asset_class = ac
         THEN <<Head(details)>> \o ClassAssets(Tail(details), ac)
         ELSE ClassAssets(Tail(details), ac)

AssetClassContribution(details, ac) ==
    [asset_class |-> ac,
     avg_weight |-> SeqSum(ClassAssets(details, ac), "avg_weight"),
     contribution |-> SeqSum(ClassAssets(details, ac), "contribution"),
     assets |-> ClassAssets(details, ac)]

AggregateClasses ==
    /\ pc = "classes"
    /\ asset_class_list' =
         LET order == ClassOrder(asset_details)
         IN  [k \in DOMAIN order |-> AssetClassContribution(asset_details, order[k])]
    /\ pc' = "rank"
    /\ UNCHANGED <<db, aux, caller, positions_by_date, all_asset_ids, asset_order, price_data,
                   sorted_dates, i, daily_returns, asset_contributions, total_twr,
                   asset_details, top_contributors, top_detractors,
                   total_contribution_check>>

(***************************************************************************)
(* Steps 9-10 (lines 228-243): ranking, the check sum, the return.         *)
(***************************************************************************)
RECURSIVE InsertDesc(_, _)
\* x placed after every element whose contribution is >= x.contribution
InsertDesc(q, x) ==
    IF q = <<>> THEN <<x>>
    ELSE IF RLt(Head(q).contribution, x.contribution)
         THEN <<x>> \o q
         ELSE <<Head(q)>> \o InsertDesc(Tail(q), x)

RECURSIVE SortedByContribution(_)
\* sorted(details, key=lambda x: x.contribution, reverse=True), a stable sort
SortedByContribution(details) ==
    IF details = <<>> THEN <<>>
    ELSE InsertDesc(SortedByContribution(SubSeq(details, 1, Len(details) - 1)),
                    details[Len(details)])

\* variant: contribution >= 0
IsContributor_NonNegative(x) == ~RNegative(x.contribution)

\* asset.contribution > 0 (lines 230, 409) and asset.contribution < 0 (lines 231, 410)
IsContributor(x) == RPos(x.contribution)
IsDetractor(x) == RNegative(x.contribution)

RankAndReturn ==
    /\ pc = "rank"
    /\ top_contributors' = SelectSeq(SortedByContribution(asset_details), IsContributor)
    /\ top_detractors' = SelectSeq(SortedByContribution(asset_details), IsDetractor)
    /\ total_contribution_check' = SeqSum(asset_details, "contribution")
    /\ pc' = "done"
    /\ UNCHANGED <<db, aux, caller, positions_by_date, all_asset_ids, asset_order, price_data,
                   sorted_dates, i, daily_returns, asset_contributions, total_twr,
                   asset_details, asset_class_list>>

\* the dict returned by calculate_twr_attribution (lines 236-243)
Report ==
    [total_twr |-> total_twr,
     daily_returns |-> daily_returns,
     asset_class_contributions |-> asset_class_list,
     top_contributors |-> top_contributors,
     top_detractors |-> top_detractors,
     total_contribution_check |-> total_contribution_check]

Next ==
    \/ RaiseNoPositions
    \/ LoadData
    \/ FirstDay
    \/ SkipDay
    \/ ProcessDay
    \/ ComputeTotalTwr
    \/ BuildAssetDetails
    \/ AggregateClasses
    \/ RankAndReturn

Spec == Init /\ [][Next]_vars

(***************************************************************************)
(* calculate_detailed_twr_attribution (lines 249-423).                     *)
(***************************************************************************)
EmptyInput == [n |-> 0, pos |-> <<>>, px |-> <<>>]

\* the tables of the detailed calls: three dates, or no row at all
DetailedInputs == ExtraInputs \cup {EmptyInput}

AssetFilter == {"all", "domestic", "foreign"}

\* one call of calculate_detailed_twr_attribution(db, portfolio_id, start_date,
\* end_date, asset_filter)
DetailedInit ==
    /\ \E inp \in DetailedInputs :
        /\ PortfolioPositionDaily = inp.pos
        /\ Price = inp.px
    /\ Asset \in {TwoClasses, OneClass}
    /\ start_date \in {1, 2}
    /\ asset_filter \in AssetFilter
    /\ pc = "d_start"
    /\ InitLocals
    /\ NoSnapshotData
    /\ BatchIdle
    /\ PerfIdle
    /\ HttpIdle

engine == <<positions_by_date, all_asset_ids, asset_order, price_data, sorted_dates, i,
            daily_returns, asset_contributions, total_twr, asset_details,
            asset_class_list, top_contributors, top_detractors,
            total_contribution_check>>

\* line 278: the Asset model has no attribute region, so building the filter
\* expression raises AttributeError before the query runs
DetailedRaiseNoRegion ==
    /\ pc = "d_start"
    /\ asset_filter # "all"
    /\ pc' = "raised"
    /\ UNCHANGED <<db, aux, caller, engine>>

\* lines 283-284: no position row in the window
DetailedRaiseNoPositions ==
    /\ pc = "d_start"
    /\ asset_filter = "all"
    /\ RowDates = {}
    /\ pc' = "raised"
    /\ UNCHANGED <<db, aux, caller, engine>>

\* lines 266-287: the rows of the window, then the call of calculate_twr_attribution
DetailedQuery ==
    /\ pc = "d_start"
    /\ asset_filter = "all"
    /\ RowDates # {}
    /\ positions' = [d \in RowDates |-> PortfolioPositionDaily[d]]
    /\ pc' = "start"
    /\ UNCHANGED <<db, aux, start_date, asset_filter, filtered_assets, detailed_result,
                   previous_result, engine>>

\* getattr(asset, "region", "unknown")
Region(a) == "unknown"

\* asset_detail.region = ...
WithRegion(x) ==
    [f \in DOMAIN x \cup {"region"} |-> IF f = "region" THEN Region(x.asset_id) ELSE x[f]]

\* lines 303-308
FilterPass(x) ==
    \/ asset_filter = "all"
    \/ asset_filter = "domestic" /\ x.region = "domestic"
    \/ asset_filter = "foreign" /\ x.region = "foreign"

\* variant: every asset of the basic result, not only the ranked ones
FilteredAssets_AllDetails(contributors, detractors) ==
    SelectSeq([k \in DOMAIN asset_details |-> WithRegion(asset_details[k])], FilterPass)

\* step 4 (lines 294-308): the ranked assets of the basic result that pass the filter
FilteredAssets(contributors, detractors) ==
    LET ranked == contributors \o detractors
    IN  SelectSeq([k \in DOMAIN ranked |-> WithRegion(ranked[k])], FilterPass)

\* class_total_mv of lines 354-362
ClassTotalMV(pos, d, ac) ==
    RSum([a \in Assets |-> IF pos[d][a] # None /\ AssetClass[a] = ac
                           THEN pos[d][a] ELSE Zero], Assets)

\* weight_pct of line 364
WeightPct(pos, d, ac) ==
    IF RPos(TotalMV(pos, d))
    THEN RMul(RDiv(ClassTotalMV(pos, d, ac), TotalMV(pos, d)), Hundred)
    ELSE Zero

WeightTrend(pos, dates, ac) ==
    [k \in DOMAIN dates |-> [date |-> dates[k], weight |-> WeightPct(pos, dates[k], ac)]]

\* (cur / base - 1) * 100 if base > 0 else 0.0
GrowthPct(cur, base) ==
    IF RPos(base) THEN RMul(RSub(RDiv(cur, base), One), Hundred) ELSE Zero

\* return_trend of lines 367-392
ReturnTrend(pos, dates, ac) ==
    [k \in DOMAIN dates |->
        [date |-> dates[k],
         cumulative_twr |-> GrowthPct(ClassTotalMV(pos, dates[k], ac),
                                      ClassTotalMV(pos, dates[1], ac)),
         daily_twr |-> IF k = 1 THEN Zero
                       ELSE GrowthPct(ClassTotalMV(pos, dates[k], ac),
                                      ClassTotalMV(pos, dates[k - 1], ac))]]

\* variant: the contribution of the class overwritten by each asset, not accumulated
DetailedClassContribution_Overwrite(fa, pos, dates, ac) ==
    [asset_class |-> ac,
     current_allocation |-> IF dates = <<>> THEN Zero
                            ELSE WeightTrend(pos, dates, ac)[Len(dates)].weight,
     avg_weight |-> SeqSum(ClassAssets(fa, ac), "avg_weight"),
     contribution |-> ClassAssets(fa, ac)[Len(ClassAssets(fa, ac))].contribution,
     weight_trend |-> WeightTrend(pos, dates, ac),
     return_trend |-> ReturnTrend(pos, dates, ac),
     assets |-> ClassAssets(fa, ac)]

\* AssetClassContribution(...) of lines 397-405
DetailedClassContribution(fa, pos, dates, ac) ==
    [asset_class |-> ac,
     current_allocation |-> IF dates = <<>> THEN Zero
                            ELSE WeightTrend(pos, dates, ac)[Len(dates)].weight,
     avg_weight |-> SeqSum(ClassAssets(fa, ac), "avg_weight"),
     contribution |-> SeqSum(ClassAssets(fa, ac), "contribution"),
     weight_trend |-> WeightTrend(pos, dates, ac),
     return_trend |-> ReturnTrend(pos, dates, ac),
     assets |-> ClassAssets(fa, ac)]

\* steps 3-6 (lines 289-419) after the basic call has returned
DetailedReport ==
    /\ pc = "done"
    /\ DOMAIN positions # {}
    /\ LET fa == FilteredAssets(top_contributors, top_detractors)
           dates == SortedSeq(DOMAIN positions)
           order == ClassOrder(fa)
           filtered_sorted == SortedByContribution(fa)
       IN  /\ filtered_assets' = fa
           /\ detailed_result' =
                [total_twr |-> total_twr,
                 daily_returns |-> daily_returns,
                 asset_class_contributions |->
                    [k \in DOMAIN order |->
                        DetailedClassContribution(fa, positions, dates, order[k])],
                 top_contributors |-> SelectSeq(filtered_sorted, IsContributor),
                 top_detractors |-> SelectSeq(filtered_sorted, IsDetractor),
                 total_contribution_check |-> SeqSum(fa, "contribution")]
    /\ pc' = "d_done"
    /\ UNCHANGED <<db, aux, start_date, asset_filter, positions, previous_result, engine>>

DetailedNext ==
    \/ DetailedRaiseNoRegion
    \/ DetailedRaiseNoPositions
    \/ DetailedQuery
    \/ LoadData
    \/ FirstDay
    \/ SkipDay
    \/ ProcessDay
    \/ ComputeTotalTwr
    \/ BuildAssetDetails
    \/ AggregateClasses
    \/ RankAndReturn
    \/ DetailedReport

DetailedSpec == DetailedInit /\ [][DetailedNext]_vars

(***************************************************************************)
(* Two calls of calculate_twr_attribution on the same tables and window.   *)
(***************************************************************************)
RepeatInit ==
    /\ \E inp \in ExtraInputs :
        /\ PortfolioPositionDaily = inp.pos
        /\ Price = inp.px
    /\ Asset = TwoClasses
    /\ start_date = 1
    /\ asset_filter = "all"
    /\ pc = "start"
    /\ InitLocals
    /\ NoSnapshotData
    /\ BatchIdle
    /\ PerfIdle
    /\ HttpIdle

\* the first call has returned: its dict is kept and the function is entered
\* again with fresh locals, the tables and the arguments being the same
InvokeAgain ==
    /\ pc = "done"
    /\ DOMAIN previous_result = {}
    /\ previous_result' = Report
    /\ pc' = "start"
    /\ positions_by_date' = <<>>
    /\ all_asset_ids' = {}
    /\ asset_order' = <<>>
    /\ price_data' = <<>>
    /\ sorted_dates' = <<>>
    /\ i' = 1
    /\ daily_returns' = <<>>
    /\ asset_contributions' = <<>>
    /\ total_twr' = None
    /\ asset_details' = <<>>
    /\ asset_class_list' = <<>>
    /\ top_contributors' = <<>>
    /\ top_detractors' = <<>>
    /\ total_contribution_check' = None
    /\ UNCHANGED <<db, aux, start_date, asset_filter, positions, filtered_assets,
                   detailed_result>>

RepeatNext ==
    \/ LoadData
    \/ FirstDay
    \/ SkipDay
    \/ ProcessDay
    \/ ComputeTotalTwr
    \/ BuildAssetDetails
    \/ AggregateClasses
    \/ RankAndReturn
    \/ InvokeAgain

RepeatSpec == RepeatInit /\ [][RepeatNext]_vars

(***************************************************************************)
(* snapshot_portfolio_date (src/pm/portfolio/snapshot_positions.py), with  *)
(* add_transaction and the deletion of a transaction.                      *)
(***************************************************************************)
MaxTx == 2
MaxCalls == 2

SnapDates == {1, 2}

\* Transaction(...) of add_transaction: buys carry a fee of 1
Tx(a, d, ty, q, px) ==
    [asset_id |-> a, trans_date |-> d, type |-> ty, quantity |-> q, price |-> px,
     fee |-> IF ty = "BUY" THEN One ELSE Zero, tax |-> Zero]

\* the transactions a user can enter: buys of 2 units of either asset on the
\* first date, a buy and a sell of asset 1 on the second, and a cash deposit
TxUniverse ==
    { Tx(1, 1, "BUY", R(2), BasePx[1]),
      Tx(2, 1, "BUY", R(2), BasePx[2]),
      Tx(1, 2, "BUY", R(2), MovedPx[1]),
      Tx(1, 2, "SELL", One, MovedPx[1]),
      Tx(1, 1, "DEPOSIT", One, Hundred) }

\* the closes of the two dates; asset 1 may have no price row on one of them
SnapPrices ==
    { <<BasePx, MovedPx>>,
      <<BasePx, [a \in Assets |-> IF a = 1 THEN None ELSE R(45)]>>,
      <<[a \in Assets |-> IF a = 1 THEN None ELSE R(45)], MovedPx>> }

\* Portfolio.initial_cash
initial_cash == R(1000)

\* the market_value column of the position rows, by date and asset
MarketValueColumn(rows) ==
    [d \in SnapDates |-> [a \in Assets |->
        IF \E k \in DOMAIN rows : rows[k].as_of_date = d /\ rows[k].asset_id = a
        THEN rows[CHOOSE k \in DOMAIN rows :
                    rows[k].as_of_date = d /\ rows[k].asset_id = a].market_value
        ELSE None]]

SnapshotInit ==
    /\ Price \in SnapPrices
    /\ Asset = TwoClasses
    /\ Transaction = {}
    /\ position_rows = <<>>
    /\ PortfolioNavDaily = <<>>
    /\ PortfolioPositionDaily = MarketValueColumn(<<>>)
    /\ pids = <<1>>
    /\ portfolio_ids = None
    /\ trading_days = <<>>
    /\ raising = {}
    /\ run_d = 1
    /\ run_p = 1
    /\ attempted = <<>>
    /\ logged = <<>>
    /\ PerfIdle
    /\ HttpIdle
    /\ start_date = 1
    /\ asset_filter = "all"
    /\ pc = "idle"
    /\ InitLocals

\* add_transaction (insert_transaction.py lines 40-60)
AddTransaction ==
    /\ Cardinality(Transaction) < MaxTx
    /\ \E tx \in TxUniverse \ Transaction : Transaction' = Transaction \cup {tx}
    /\ UNCHANGED <<PortfolioPositionDaily, Price, Asset, position_rows, PortfolioNavDaily,
                   aux, caller, engine, pc>>

\* on_delete (gui_transaction_input.py lines 267-287)
DeleteTransaction ==
    /\ \E tx \in Transaction : Transaction' = Transaction \ {tx}
    /\ UNCHANGED <<PortfolioPositionDaily, Price, Asset, position_rows, PortfolioNavDaily,
                   aux, caller, engine, pc>>

\* the transactions with trans_date <= as_of_date
TxUpTo(d) == { tx \in Transaction : tx.trans_date <= d }

\* the amount of one transaction in the cash sum of lines 21-39
CashFlow(tx) ==
    IF tx.type = "BUY"
    THEN RNeg(RAdd(RAdd(RMul(tx.quantity, tx.price), tx.fee), tx.tax))
    ELSE IF tx.type \in {"SELL", "DEPOSIT"}
         THEN RSub(RSub(RMul(tx.quantity, tx.price), tx.fee), tx.tax)
         ELSE Zero

\* cash_balance of lines 45-50
CashBalance(d) ==
    RAdd(initial_cash, RSum([tx \in TxUpTo(d) |-> CashFlow(tx)], TxUpTo(d)))

\* asset_ids of lines 53-60
AssetIds(d) == { tx.asset_id : tx \in TxUpTo(d) }

\* price_map of lines 63-108: the close of the date, else the latest earlier
\* close, else 0
PriceMap(a, d) ==
    IF Price[d][a] # None THEN Price[d][a]
    ELSE IF \E e \in SnapDates : e < d /\ Price[e][a] # None
         THEN Price[CHOOSE e \in SnapDates :
                      /\ e < d /\ Price[e][a] # None
                      /\ \A f \in SnapDates : (f < d /\ Price[f][a] # None) => f <= e][a]
         ELSE Zero

\* the sum of quantity (or of quantity * price) over the transactions of one
\* asset and type (lines 113-136)
TxOf(a, d, ty) == { tx \in TxUpTo(d) : tx.asset_id = a /\ tx.type = ty }
TxQty(a, d, ty) == RSum([tx \in TxOf(a, d, ty) |-> tx.quantity], TxOf(a, d, ty))
TxCost(a, d, ty) ==
    RSum([tx \in TxOf(a, d, ty) |-> RMul(tx.quantity, tx.price)], TxOf(a, d, ty))

\* lines 157-164
TotalQty(a, d) == RSub(TxQty(a, d, "BUY"), TxQty(a, d, "SELL"))
AvgPrice(a, d) ==
    IF TxQty(a, d, "BUY") # Zero
    THEN RDiv(TxCost(a, d, "BUY"), TxQty(a, d, "BUY"))
    ELSE Zero
SnapshotMV(a, d) == RMul(TotalQty(a, d), PriceMap(a, d))

\* total_market_value of lines 150-165
SnapshotTotalMV(d) == RSum([a \in AssetIds(d) |-> SnapshotMV(a, d)], AssetIds(d))

PositionRow(a, d) ==
    [as_of_date |-> d, asset_id |-> a, quantity |-> TotalQty(a, d),
     avg_price |-> AvgPrice(a, d), market_value |-> SnapshotMV(a, d)]

NavRow(d) ==
    [as_of_date |-> d, cash_balance |-> CashBalance(d),
     total_market_value |-> SnapshotTotalMV(d),
     nav |-> RAdd(CashBalance(d), SnapshotTotalMV(d))]

\* variant: a new row is added whether or not one exists
UpsertOne_AlwaysAdd(rows, a, d) == Append(rows, PositionRow(a, d))

\* lines 167-181: the existing row of (d, a) gets the new values, or a new row
\* is added
UpsertOne(rows, a, d) ==
    LET existing == { k \in DOMAIN rows : rows[k].as_of_date = d /\ rows[k].asset_id = a }
    IN  IF existing # {}
        THEN [k \in DOMAIN rows |-> IF k \in existing THEN PositionRow(a, d) ELSE rows[k]]
        ELSE Append(rows, PositionRow(a, d))

RECURSIVE Upsert(_, _, _)
\* the loop of lines 152-181 over asset_ids
Upsert(rows, ids, d) ==
    IF ids = {} THEN rows
    ELSE LET a == CHOOSE a \in ids : \A b \in ids : a <= b
         IN  Upsert(UpsertOne(rows, a, d), ids \ {a}, d)

\* lines 184-205
UpsertNav(rows, d) ==
    IF \E k \in DOMAIN rows : rows[k].as_of_date = d
    THEN [k \in DOMAIN rows |-> IF rows[k].as_of_date = d THEN NavRow(d) ELSE rows[k]]
    ELSE Append(rows, NavRow(d))

\* one call snapshot_portfolio_date(portfolio_id, d), committed at line 207
SnapshotPortfolioDate(d) ==
    /\ Len(attempted) < MaxCalls
    /\ attempted' = Append(attempted, <<d, pids[1]>>)
    /\ position_rows' = Upsert(position_rows, AssetIds(d), d)
    /\ PortfolioPositionDaily' = MarketValueColumn(position_rows')
    /\ PortfolioNavDaily' = UpsertNav(PortfolioNavDaily, d)
    /\ UNCHANGED <<Price, Asset, Transaction, trading_days, portfolio_ids, pids, raising,
                   run_d, run_p, logged, perf, http, caller, engine, pc>>

SnapshotNext ==
    \/ AddTransaction
    \/ DeleteTransaction
    \/ \E d \in SnapDates : SnapshotPortfolioDate(d)

SnapshotSpec == SnapshotInit /\ [][SnapshotNext]_vars

(***************************************************************************)
(* A detailed attribution call while snapshots are being committed.        *)
(***************************************************************************)
\* the transactions are entered; the snapshots and one call of
\* calculate_detailed_twr_attribution are still to run
ConcurrentInit ==
    /\ Price \in SnapPrices
    /\ Asset = TwoClasses
    /\ Transaction \in { T \in SUBSET TxUniverse : T # {} /\ Cardinality(T) <= MaxTx }
    /\ position_rows = <<>>
    /\ PortfolioNavDaily = <<>>
    /\ PortfolioPositionDaily = MarketValueColumn(<<>>)
    /\ pids = <<1>>
    /\ portfolio_ids = None
    /\ trading_days = <<>>
    /\ raising = {}
    /\ run_d = 1
    /\ run_p = 1
    /\ attempted = <<>>
    /\ logged = <<>>
    /\ PerfIdle
    /\ HttpIdle
    /\ start_date = 1
    /\ asset_filter = "all"
    /\ pc = "d_start"
    /\ InitLocals

\* each query of the request's session reads the rows committed so far
ConcurrentNext ==
    \/ \E d \in SnapDates : SnapshotPortfolioDate(d)
    \/ DetailedRaiseNoPositions
    \/ DetailedQuery
    \/ LoadData
    \/ FirstDay
    \/ SkipDay
    \/ ProcessDay
    \/ ComputeTotalTwr
    \/ BuildAssetDetails
    \/ AggregateClasses
    \/ RankAndReturn
    \/ DetailedReport

ConcurrentSpec == ConcurrentInit /\ [][ConcurrentNext]_vars

(***************************************************************************)
(* run_full_snapshot_krx (src/scripts/fetch_snapshots.py lines 76-113).    *)
(***************************************************************************)
\* the ids of the rows of the portfolios table
Portfolios == {1, 2}

\* get_trading_days_krx(start_date, end_date): ascending trading days
TradingDayLists == { <<>>, <<1>>, <<1, 2>> }

\* the portfolio_ids argument: None, or up to two ids, some of them unknown
\* or repeated
RequestedIds ==
    {None} \cup UNION { [1..n -> Portfolios \cup {3}] : n \in 0..2 }

BatchInit ==
    /\ trading_days \in TradingDayLists
    /\ portfolio_ids \in RequestedIds
    /\ raising \in SUBSET (SnapDates \X Portfolios)
    /\ pids = <<>>
    /\ run_d = 1
    /\ run_p = 1
    /\ attempted = <<>>
    /\ logged = <<>>
    /\ PortfolioPositionDaily = <<>>
    /\ Price = <<>>
    /\ Asset = TwoClasses
    /\ NoSnapshotData
    /\ PerfIdle
    /\ HttpIdle
    /\ start_date = 1
    /\ asset_filter = "all"
    /\ pc = "b_start"
    /\ InitLocals

rest == <<db, perf, http, caller, engine>>

\* lines 91-94
BatchNoTradingDays ==
    /\ pc = "b_start"
    /\ trading_days = <<>>
    /\ pc' = "b_done"
    /\ UNCHANGED <<rest, batch>>

\* the ids the queries of lines 96-99 can return: every portfolio, or the
\* requested ones that exist, in the order of the database
ValidIds == IF portfolio_ids = None THEN Portfolios ELSE Range(portfolio_ids) \cap Portfolios

\* lines 96-105
BatchNoPortfolios ==
    /\ pc = "b_start"
    /\ trading_days # <<>>
    /\ ValidIds = {}
    /\ pc' = "b_done"
    /\ UNCHANGED <<rest, batch>>

BatchStart ==
    /\ pc = "b_start"
    /\ trading_days # <<>>
    /\ ValidIds # {}
    /\ \E q \in Perms(ValidIds) : pids' = q
    /\ pc' = "b_loop"
    /\ UNCHANGED <<rest, trading_days, portfolio_ids, raising, run_d, run_p, attempted,
                   logged>>

\* lines 108-110: the call returns
BatchCallReturns ==
    /\ pc = "b_loop"
    /\ run_d <= Len(trading_days)
    /\ run_p <= Len(pids)
    /\ <<trading_days[run_d], pids[run_p]>> \notin raising
    /\ attempted' = Append(attempted, <<trading_days[run_d], pids[run_p]>>)
    /\ run_p' = run_p + 1
    /\ UNCHANGED <<rest, trading_days, portfolio_ids, pids, raising, run_d, logged, pc>>

\* variant: the exception ends the run
BatchCallRaises_Abort ==
    /\ pc = "b_loop"
    /\ run_d <= Len(trading_days)
    /\ run_p <= Len(pids)
    /\ <<trading_days[run_d], pids[run_p]>> \in raising
    /\ attempted' = Append(attempted, <<trading_days[run_d], pids[run_p]>>)
    /\ logged' = Append(logged, <<trading_days[run_d], pids[run_p]>>)
    /\ pc' = "b_done"
    /\ UNCHANGED <<rest, trading_days, portfolio_ids, pids, raising, run_d, run_p>>

\* lines 109-112: the call raises, the exception is printed
BatchCallRaises ==
    /\ pc = "b_loop"
    /\ run_d <= Len(trading_days)
    /\ run_p <= Len(pids)
    /\ <<trading_days[run_d], pids[run_p]>> \in raising
    /\ attempted' = Append(attempted, <<trading_days[run_d], pids[run_p]>>)
    /\ logged' = Append(logged, <<trading_days[run_d], pids[run_p]>>)
    /\ run_p' = run_p + 1
    /\ UNCHANGED <<rest, trading_days, portfolio_ids, pids, raising, run_d, pc>>

\* line 113: the inner loop is over
BatchDayCompleted ==
    /\ pc = "b_loop"
    /\ run_d <= Len(trading_days)
    /\ run_p > Len(pids)
    /\ run_d' = run_d + 1
    /\ run_p' = 1
    /\ UNCHANGED <<rest, trading_days, portfolio_ids, pids, raising, attempted, logged, pc>>

\* the outer loop is over
BatchReturn ==
    /\ pc = "b_loop"
    /\ run_d > Len(trading_days)
    /\ pc' = "b_done"
    /\ UNCHANGED <<rest, batch>>

BatchNext ==
    \/ BatchNoTradingDays
    \/ BatchNoPortfolios
    \/ BatchStart
    \/ BatchCallReturns
    \/ BatchCallRaises
    \/ BatchDayCompleted
    \/ BatchReturn

BatchSpec == BatchInit /\ [][BatchNext]_vars

\* the script runs to its end: no step of the loop waits for anything
BatchFairSpec == BatchSpec /\ WF_vars(BatchNext)

(***************************************************************************)
(* get_portfolio_attribution_specific_period (api/routers/attribution.py   *)
(* lines 72-125).                                                          *)
(***************************************************************************)
ReqDates == 1..3

\* a request, with the rows the queries of the handler see: the dates of the
\* portfolio's position rows, and whether the attribution service raises
Requests ==
    [portfolio_id : Portfolios \cup {3},
     start_date : ReqDates,
     end_date : ReqDates,
     as_of_dates : SUBSET ReqDates,
     service_raises : BOOLEAN]

RouterInit ==
    /\ request \in Requests
    /\ status_code = 0
    /\ PortfolioPositionDaily = <<>>
    /\ Price = <<>>
    /\ Asset = TwoClasses
    /\ NoSnapshotData
    /\ BatchIdle
    /\ PerfIdle
    /\ start_date = 1
    /\ asset_filter = "all"
    /\ pc = "h_start"
    /\ InitLocals

\* line 84
PortfolioFound == request.portfolio_id \in Portfolios

\* lines 94-100
position_count ==
    Cardinality({d \in request.as_of_dates : d >= request.start_date /\ d <= request.end_date})

\* HTTPException(status_code, detail)
HTTPException(code, text) == [status_code |-> code, detail |-> text]

\* lines 123-125: except Exception, the handler of whatever the try block
\* raised, HTTPException included
ExceptException(e) == HTTPException(500, e.detail)

Respond(code) ==
    /\ status_code' = code
    /\ pc' = "h_done"
    /\ UNCHANGED <<db, batch, perf, request, caller, engine>>

\* lines 85-86, then 123-125
RouterPortfolioNotFound ==
    /\ pc = "h_start"
    /\ ~PortfolioFound
    /\ Respond(ExceptException(HTTPException(404, "Portfolio not found")).status_code)

\* lines 89-90, then 123-125
RouterBadDates ==
    /\ pc = "h_start"
    /\ PortfolioFound
    /\ request.start_date >= request.end_date
    /\ Respond(ExceptException(HTTPException(400, "Start date must be before end date")).status_code)

\* lines 102-103, then 123-125
RouterNoPositions ==
    /\ pc = "h_start"
    /\ PortfolioFound
    /\ request.start_date < request.end_date
    /\ position_count = 0
    /\ Respond(ExceptException(HTTPException(404, "No position data found")).status_code)

\* lines 106-108 raise, then 123-125
RouterServiceRaises ==
    /\ pc = "h_start"
    /\ PortfolioFound
    /\ request.start_date < request.end_date
    /\ position_count # 0
    /\ request.service_raises
    /\ Respond(ExceptException([detail |-> "error of the service"]).status_code)

\* lines 106-121
RouterReturns ==
    /\ pc = "h_start"
    /\ PortfolioFound
    /\ request.start_date < request.end_date
    /\ position_count # 0
    /\ ~request.service_raises
    /\ Respond(200)

RouterNext ==
    \/ RouterPortfolioNotFound
    \/ RouterBadDates
    \/ RouterNoPositions
    \/ RouterServiceRaises
    \/ RouterReturns

RouterSpec == RouterInit /\ [][RouterNext]_vars

(***************************************************************************)
(* The period returns of api/services/performance.py (lines 203-267).      *)
(***************************************************************************)
\* the longest NAV series
MaxNav == 3

NavDates == 1..(MaxNav + 1)

NavValues == {R(0), R(100), R(110), R(120)}

\* the rows of the query of lines 169-175: ordered by as_of_date, one row a
\* date
NavSeries ==
    UNION { { q \in [1..n -> [as_of_date : NavDates, nav : NavValues]] :
                \A j \in 1..(n - 1) : q[j].as_of_date < q[j + 1].as_of_date } :
            n \in 0..MaxNav }

PerfInit ==
    /\ all_nav_data \in NavSeries
    /\ period \in NavDates \X NavDates
    /\ cumulative_return = None
    /\ period_daily_returns = <<>>
    /\ PortfolioPositionDaily = <<>>
    /\ Price = <<>>
    /\ Asset = TwoClasses
    /\ NoSnapshotData
    /\ BatchIdle
    /\ HttpIdle
    /\ start_date = 1
    /\ asset_filter = "all"
    /\ pc = "p_start"
    /\ InitLocals

\* utils.safe_float: None stays None, a number becomes a float (exact here)
safe_float(value) == value

InPeriod(nav, s, e) == s <= nav.as_of_date /\ nav.as_of_date <= e

\* lines 224-235
calculate_cumulative_return(nav_data) ==
    IF Len(nav_data) < 2 THEN Zero
    ELSE LET first_nav == safe_float(nav_data[1].nav)
             last_nav == safe_float(nav_data[Len(nav_data)].nav)
         IN  IF ~Truthy(first_nav) \/ ~RPos(first_nav) THEN Zero
             ELSE RMul(RDiv(RSub(last_nav, first_nav), first_nav), Hundred)

\* variant: always measured from the first NAV of the period
calculate_cumulative_return_in_period(all, s, e) ==
    LET period_data == SelectSeq(all, LAMBDA nav : InPeriod(nav, s, e))
    IN  IF period_data = <<>> THEN Zero ELSE calculate_cumulative_return(period_data)

\* lines 203-222
calculate_cumulative_return_with_extended_data(all, s, e) ==
    LET period_data == SelectSeq(all, LAMBDA nav : InPeriod(nav, s, e))
        pre_period_data == SelectSeq(all, LAMBDA nav : nav.as_of_date < s)
    IN  IF period_data = <<>> THEN Zero
        ELSE IF pre_period_data = <<>> THEN calculate_cumulative_return(period_data)
        ELSE LET start_nav == safe_float(pre_period_data[Len(pre_period_data)].nav)
                 end_nav == safe_float(period_data[Len(period_data)].nav)
             IN  IF ~Truthy(start_nav) \/ ~RPos(start_nav) \/ ~Truthy(end_nav) THEN Zero
                 ELSE RMul(RDiv(RSub(end_nav, start_nav), start_nav), Hundred)

\* lines 237-267
calculate_period_daily_returns_with_extended_data(all, s, e) ==
    IF Len(all) < 2 THEN <<>>
    ELSE LET emitted(j) ==
                 /\ InPeriod(all[j], s, e)
                 /\ Truthy(safe_float(all[j - 1].nav))
                 /\ RPos(safe_float(all[j - 1].nav))
                 /\ Truthy(safe_float(all[j].nav))
             idx == SelectSeq([k \in 1..(Len(all) - 1) |-> k + 1], emitted)
         IN  [k \in 1..Len(idx) |->
                LET prev_nav == safe_float(all[idx[k] - 1].nav)
                    curr_nav == safe_float(all[idx[k]].nav)
                    daily_return == RMul(RDiv(RSub(curr_nav, prev_nav), prev_nav), Hundred)
                IN  [date |-> all[idx[k]].as_of_date,
                     daily_return |-> daily_return,
                     return_pct |-> daily_return]]

\* get_performance_custom_period, line 183
PerfCumulativeReturn ==
    /\ pc = "p_start"
    /\ cumulative_return' =
          calculate_cumulative_return_with_extended_data(all_nav_data, period[1], period[2])
    /\ pc' = "p_cumulative"
    /\ UNCHANGED <<db, batch, http, caller, engine, all_nav_data, period,
                   period_daily_returns>>

\* get_performance_custom_period, line 186
PerfDailyReturns ==
    /\ pc = "p_cumulative"
    /\ period_daily_returns' =
          calculate_period_daily_returns_with_extended_data(all_nav_data, period[1], period[2])
    /\ pc' = "p_done"
    /\ UNCHANGED <<db, batch, http, caller, engine, all_nav_data, period, cumulative_return>>

PerfNext ==
    \/ PerfCumulativeReturn
    \/ PerfDailyReturns

PerfSpec == PerfInit /\ [][PerfNext]_vars

(***************************************************************************)
(* Reference quantities of the properties, taken from the database rows.   *)
(***************************************************************************)
RefMV(d, a) ==
    IF PortfolioPositionDaily[d][a] = None THEN Zero ELSE PortfolioPositionDaily[d][a]

RefTotal(d) == RSum([a \in Assets |-> RefMV(d, a)], Assets)

\* weight[asset, d] = market_value[asset, d] / sum of market values at d (0 if that is 0)
RefWeight(d, a) == IF RPos(RefTotal(d)) THEN RDiv(RefMV(d, a), RefTotal(d)) ELSE Zero

\* the snapshot date before t
PrevDate(t) == CHOOSE d \in RowDates : d < t /\ \A e \in RowDates : e < t => e <= d

\* the snapshot dates that have a previous snapshot date
Boundaries == { t \in RowDates : \E d \in RowDates : d < t }

\* price[t]/price[t-1] - 1 when both prices exist and the prior one is positive, else 0
RatioReturn(a, d, t) ==
    IF Price[d][a] # None /\ Price[t][a] # None /\ RPos(Price[d][a])
    THEN RSub(RDiv(Price[t][a], Price[d][a]), One)
    ELSE Zero

Tolerance == <<1, 10000>>

Returned == pc = "done"

\* no asset weight above 95% on any snapshot date
NoWeightAbove95 ==
    \A d \in RowDates : \A a \in Assets : RLe(RefWeight(d, a), <<95, 100>>)

NonzeroDays == { k \in DOMAIN daily_returns : daily_returns[k].daily_return # Zero }

ReconciliationDelta == RAbs(RSub(total_contribution_check, total_twr))

(***************************************************************************)
(* C1  Reconciliation.                                                     *)
(***************************************************************************)
\* C1 (as stated): every report over at least 20 snapshot days in which no
\* asset weight exceeds 95% has |sum of contributions - total_twr| < 1e-4
\* percentage points.
C1_ReconcilesWithinTolerance ==
    (Returned /\ Len(sorted_dates) >= 20 /\ NoWeightAbove95)
        => RLt(ReconciliationDelta, Tolerance)

\* C1 (amended): the same, for the reports in which at most one daily
\* portfolio return is nonzero.
C1_ReconcilesWithOneMove ==
    (Returned /\ Len(sorted_dates) >= 20 /\ NoWeightAbove95
        /\ Cardinality(NonzeroDays) <= 1)
        => RLt(ReconciliationDelta, Tolerance)

C1_Witness ==
    /\ Returned
    /\ Len(sorted_dates) >= 20
    /\ NoWeightAbove95
    /\ Cardinality(NonzeroDays) = 1
    /\ total_twr # Zero

(***************************************************************************)
(* C2  Contributions add up to the daily portfolio returns.                *)
(***************************************************************************)
\* C2: at every point of the loop the accumulated contributions of all assets
\* sum to the sum of the emitted daily portfolio returns, and every emitted
\* return of a boundary is the sum over the assets of (weight at the previous
\* snapshot date) x (asset return of the day).
C2_ContributionsSumToDailyReturns ==
    /\ RMul(RSum(asset_contributions, all_asset_ids), Hundred)
         = SeqSum(daily_returns, "daily_return")
    /\ \A k \in DOMAIN daily_returns :
         k > 1 =>
           LET t == daily_returns[k].date
               d == PrevDate(t)
           IN  daily_returns[k].daily_return =
                 RMul(RSum([a \in Assets |->
                              RMul(RefWeight(d, a),
                                   AssetReturn(Price[d][a], Price[t][a]))],
                           RowAssets), Hundred)

C2_Witness ==
    /\ Returned
    /\ Cardinality(NonzeroDays) >= 2
    /\ \A a \in Assets : a \in all_asset_ids /\ asset_contributions[a] # Zero

(***************************************************************************)
(* C3  total_twr compounds the daily returns.                              *)
(***************************************************************************)
RECURSIVE GrowthProduct(_)
\* product over the entries of (1 + daily_return / 100)
GrowthProduct(drs) ==
    IF drs = <<>> THEN One
    ELSE RMul(RAdd(One, RDiv(drs[Len(drs)].daily_return, Hundred)),
              GrowthProduct(SubSeq(drs, 1, Len(drs) - 1)))

\* C3: the returned total_twr is (product of (1 + daily return) - 1) in
\* percentage points.
C3_TotalTwrIsCompounded ==
    pc \in {"details", "classes", "rank", "done"}
        => total_twr = RMul(RSub(GrowthProduct(daily_returns), One), Hundred)

\* a report whose compounded return differs from the sum of its daily returns
C3_Witness ==
    /\ Returned
    /\ Cardinality(NonzeroDays) >= 2
    /\ total_twr # SeqSum(daily_returns, "daily_return")

(***************************************************************************)
(* C4  The two-asset scenario of the specification.                        *)
(***************************************************************************)
Scenario ==
    /\ start_date = 1
    /\ DOMAIN PortfolioPositionDaily = 1..2
    /\ PortfolioPositionDaily[1] = [a \in Assets |-> IF a = 1 THEN R(60) ELSE R(40)]
    /\ Price[1] = BasePx
    /\ Price[2] = MovedPx

DetailOf(a) == asset_details[CHOOSE k \in DOMAIN asset_details : asset_details[k].asset_id = a]

\* C4: weights 0.6 / 0.4, prices 100 -> 110 and 50 -> 45 over one boundary
\* give contributions 6 and -4, daily return 2, total_twr 2, and the
\* contributions sum to total_twr.
C4_ScenarioValues ==
    (Returned /\ Scenario) =>
        /\ DetailOf(1).contribution = R(6)
        /\ DetailOf(2).contribution = R(-4)
        /\ Len(daily_returns) = 2
        /\ daily_returns[2].daily_return = R(2)
        /\ total_twr = R(2)
        /\ total_contribution_check = total_twr

C4_Witness == Returned /\ Scenario /\ Len(asset_details) = 2

(***************************************************************************)
(* C5  Fewer than two snapshot dates.                                      *)
(***************************************************************************)
\* C5: a window with fewer than 2 distinct snapshot dates never yields a
\* report.
C5_FewerThanTwoDatesFails ==
    Cardinality(RowDates) < 2 => ~Returned

(***************************************************************************)
(* C6  The asset return of a boundary.                                     *)
(***************************************************************************)
\* the boundaries the loop has gone through whose prior total is positive
ProcessedBoundaries ==
    { t \in Boundaries :
        /\ pc \in {"loop", "details", "classes", "rank", "done"}
        /\ \E k \in 2..Len(sorted_dates) : k < i /\ sorted_dates[k] = t
        /\ RPos(RefTotal(PrevDate(t))) }

\* C6: the term of every asset on every boundary gone through is
\* weight x (price[t]/price[t-1] - 1) whenever both prices exist and the
\* prior price is positive (a recorded price[t] of 0 gives -100%), else 0.
C6_ReturnIsPriceRatio ==
    \A a \in all_asset_ids :
        asset_contributions[a] =
            RSum([t \in ProcessedBoundaries |->
                    RMul(RefWeight(PrevDate(t), a), RatioReturn(a, PrevDate(t), t))],
                 ProcessedBoundaries)

(***************************************************************************)
(* C7  A missing price.                                                    *)
(***************************************************************************)
MissingAt(a, t) == Price[PrevDate(t)][a] = None \/ Price[t][a] = None

\* C7: on a boundary gone through on which the price of an asset is missing,
\* the day is emitted with the weight x return terms of the other assets
\* alone, nothing is raised and every figure is a number.
C7_MissingPriceOnlyZeroesItsTerm ==
    /\ RowDates # {} => pc # "raised"
    /\ \A t \in ProcessedBoundaries : \A a \in all_asset_ids :
         MissingAt(a, t) =>
           \E k \in DOMAIN daily_returns :
             /\ daily_returns[k].date = t
             /\ IsNumber(daily_returns[k].daily_return)
             /\ daily_returns[k].daily_return =
                  RMul(RSum([b \in Assets |->
                               RMul(RefWeight(PrevDate(t), b),
                                    RatioReturn(b, PrevDate(t), t))],
                            { b \in all_asset_ids : ~MissingAt(b, t) }), Hundred)
    /\ \A a \in DOMAIN asset_contributions : IsNumber(asset_contributions[a])
    /\ Returned =>
         /\ IsNumber(total_twr)
         /\ \A k \in DOMAIN asset_details :
              /\ IsNumber(asset_details[k].contribution)
              /\ IsNumber(asset_details[k].period_return)

\* a report with a boundary on which asset 1, held, has no price and asset 2,
\* held, has a nonzero return
C7_Witness ==
    /\ Returned
    /\ \E t \in ProcessedBoundaries :
         /\ MissingAt(1, t)
         /\ RPos(RefWeight(PrevDate(t), 1))
         /\ RPos(RefWeight(PrevDate(t), 2))
         /\ RatioReturn(2, PrevDate(t), t) # Zero

(***************************************************************************)
(* C8  An asset that is never held.                                        *)
(***************************************************************************)
NeverHeld(a) == \A d \in RowDates : RefMV(d, a) = Zero

\* C8: an asset with market value 0 on every snapshot date is reported with
\* contribution 0 and avg_weight 0.
C8_NeverHeldIsZero ==
    Returned =>
        \A k \in DOMAIN asset_details :
            NeverHeld(asset_details[k].asset_id) =>
                /\ asset_details[k].contribution = Zero
                /\ asset_details[k].avg_weight = Zero
                /\ asset_contributions[asset_details[k].asset_id] = Zero

\* a report with a never-held asset whose price moved while the other asset
\* was held
C8_Witness ==
    /\ Returned
    /\ \E k \in DOMAIN asset_details :
         /\ NeverHeld(asset_details[k].asset_id)
         /\ \E t \in ProcessedBoundaries :
              RatioReturn(asset_details[k].asset_id, PrevDate(t), t) # Zero

(***************************************************************************)
(* C9  A boundary with no prior exposure.                                  *)
(***************************************************************************)
AtEmptyBoundary ==
    /\ pc = "loop"
    /\ i > 1
    /\ i <= Len(sorted_dates)
    /\ ~RPos(RefTotal(sorted_dates[i - 1]))

HeldDates(a) == { d \in RowDates : RPos(RefMV(d, a)) }
EntryDate(a) == CHOOSE d \in HeldDates(a) : \A e \in HeldDates(a) : d <= e
ExitDate(a) == CHOOSE d \in HeldDates(a) : \A e \in HeldDates(a) : e <= d

\* C10: the period_return of an asset held at some date is
\* price[exit_date]/price[entry_date] - 1 (in percent), entry and exit being
\* the first and last date with a positive market value.
C10_PeriodReturnOverHoldingPeriod ==
    Returned =>
        \A k \in DOMAIN asset_details :
            LET a == asset_details[k].asset_id
            IN  (/\ HeldDates(a) # {}
                 /\ Price[EntryDate(a)][a] # None
                 /\ Price[ExitDate(a)][a] # None
                 /\ RPos(Price[EntryDate(a)][a]))
                => asset_details[k].period_return =
                     RMul(RSub(RDiv(Price[ExitDate(a)][a], Price[EntryDate(a)][a]),
                               One), Hundred)

(***************************************************************************)
(* C11  An asset sold before the end of the window.                        *)
(***************************************************************************)
LastDate == CHOOSE d \in RowDates : \A e \in RowDates : e <= d

SoldBeforeEnd(a) == HeldDates(a) # {} /\ ExitDate(a) < LastDate

\* the term of asset a on the boundary ending at t: prior weight x the asset
\* return the engine uses
Term(a, t) ==
    RMul(RefWeight(PrevDate(t), a), AssetReturn(Price[PrevDate(t)][a], Price[t][a]))

HeldWithReturn(a) ==
    \E t \in Boundaries :
        /\ RPos(RefWeight(PrevDate(t), a))
        /\ AssetReturn(Price[PrevDate(t)][a], Price[t][a]) # Zero

\* C11 (as stated): an asset sold to zero before the last snapshot date has
\* current_allocation 0, and a nonzero contribution whenever it was held on
\* at least one boundary with a nonzero return.
C11_SoldAssetContributes ==
    Returned =>
        \A k \in DOMAIN asset_details :
            SoldBeforeEnd(asset_details[k].asset_id) =>
                /\ asset_details[k].current_allocation = Zero
                /\ HeldWithReturn(asset_details[k].asset_id)
                     => asset_details[k].contribution # Zero

\* C11 (amended): such an asset has current_allocation 0, its contribution is
\* the sum of its boundary terms, and it is nonzero whenever some term is
\* nonzero and no two terms have opposite signs.
C11_SoldAssetContributesUnlessCancelled ==
    Returned =>
        \A k \in DOMAIN asset_details :
            LET a == asset_details[k].asset_id
            IN  SoldBeforeEnd(a) =>
                  /\ asset_details[k].current_allocation = Zero
                  /\ asset_details[k].contribution =
                       RMul(RSum([t \in Boundaries |-> Term(a, t)], Boundaries), Hundred)
                  /\ (/\ \E t \in Boundaries : Term(a, t) # Zero
                      /\ \/ \A t \in Boundaries : ~RNegative(Term(a, t))
                         \/ \A t \in Boundaries : ~RPos(Term(a, t)))
                     => asset_details[k].contribution # Zero

\* a report with an asset sold before the end, held next to the other asset,
\* with a nonzero contribution
C11_Witness ==
    /\ Returned
    /\ \E k \in DOMAIN asset_details :
         /\ SoldBeforeEnd(asset_details[k].asset_id)
         /\ \E d \in HeldDates(asset_details[k].asset_id) :
              RLt(RefWeight(d, asset_details[k].asset_id), One)
         /\ RPos(RefTotal(LastDate))
         /\ asset_details[k].contribution # Zero

(***************************************************************************)
(* C13  The average weight of an asset.                                    *)
(***************************************************************************)
\* the boundaries on which asset a had a nonzero prior weight
HeldBoundaries(a) == { t \in Boundaries : RPos(RefWeight(PrevDate(t), a)) }

\* the snapshot dates but the last on which the portfolio has a positive total
WeighedDates == { d \in RowDates : d # LastDate /\ RPos(RefTotal(d)) }

\* C13 (as stated): avg_weight is the mean of the prior weights over the
\* boundaries on which the asset had a nonzero prior weight.
C13_AvgWeightOverHeldBoundaries ==
    Returned =>
        \A k \in DOMAIN asset_details :
            LET a == asset_details[k].asset_id
            IN  asset_details[k].avg_weight =
                  IF HeldBoundaries(a) = {} THEN Zero
                  ELSE RMul(RDiv(RSum([t \in Boundaries |-> RefWeight(PrevDate(t), a)],
                                      HeldBoundaries(a)),
                                 R(Cardinality(HeldBoundaries(a)))), Hundred)

\* C13 (amended): avg_weight is the mean of the asset's weight over every
\* snapshot date but the last on which the total market value is positive,
\* the dates on which the asset is not held counting with weight 0.
C13_AvgWeightOverAllDates ==
    Returned =>
        \A k \in DOMAIN asset_details :
            LET a == asset_details[k].asset_id
            IN  asset_details[k].avg_weight =
                  IF WeighedDates = {} THEN Zero
                  ELSE RMul(RDiv(RSum([d \in RowDates |-> RefWeight(d, a)], WeighedDates),
                                 R(Cardinality(WeighedDates))), Hundred)

\* a report with an asset held on one weighed date and not on another
C13_Witness ==
    /\ Returned
    /\ \E k \in DOMAIN asset_details :
         /\ \E d \in WeighedDates : RPos(RefWeight(d, asset_details[k].asset_id))
         /\ \E d \in WeighedDates : RefWeight(d, asset_details[k].asset_id) = Zero
         /\ RPos(asset_details[k].avg_weight)

(***************************************************************************)
(* C15  Ties in the ranked lists.                                          *)
(***************************************************************************)
TiesByAssetId(q) ==
    \A k \in DOMAIN q : \A l \in DOMAIN q :
        (k < l /\ q[k].contribution = q[l].contribution) => q[k].asset_id < q[l].asset_id

\* C15: of two assets with equal contribution the one with the smaller
\* asset_id comes first in top_contributors and in top_detractors.
C15_TiesOrderedByAssetId ==
    Returned => TiesByAssetId(top_contributors) /\ TiesByAssetId(top_detractors)

(***************************************************************************)
(* C19  The reconciliation check of the report.                            *)
(***************************************************************************)
\* C19: every returned report carries delta = |sum of contributions -
\* total_twr| and is_valid = (delta < tolerance).
C19_ReportCarriesReconciliation ==
    Returned =>
        /\ {"reconciliation_delta", "is_valid"} \subseteq DOMAIN Report
        /\ Report.reconciliation_delta = ReconciliationDelta
        /\ Report.is_valid = RLt(ReconciliationDelta, Tolerance)

(***************************************************************************)
(* The snapshot date before the window.                                    *)
(***************************************************************************)
AllRowDates == { d \in DOMAIN PortfolioPositionDaily :
                   \E a \in Assets : PortfolioPositionDaily[d][a] # None }
HasAnchor == RowDates # {} /\ \E d \in AllRowDates : d < start_date
AnchorDate == CHOOSE d \in AllRowDates :
                 d < start_date /\ \A e \in AllRowDates : e < start_date => e <= d
FirstInWindow == CHOOSE d \in RowDates : \A e \in RowDates : d <= e

\* the term of asset a on the boundary from the anchor date to the first date
\* of the window
AnchorTerm(a) ==
    RMul(RefWeight(AnchorDate, a),
         AssetReturn(Price[AnchorDate][a], Price[FirstInWindow][a]))
AnchorReturn == RSum([a \in Assets |-> AnchorTerm(a)], Assets)

\* C12: a report over a window preceded by a snapshot date takes that date as
\* the anchor: the boundary anchor -> first window date is in total_twr and in
\* the asset contributions, and the anchor date has no daily-return entry.
C12_AnchorBoundaryIncluded ==
    (Returned /\ HasAnchor) =>
        /\ \A k \in DOMAIN daily_returns : daily_returns[k].date >= start_date
        /\ total_twr = RMul(RSub(RMul(RAdd(One, AnchorReturn),
                                      Compound(One, daily_returns)), One), Hundred)
        /\ \A a \in RowAssets :
              RSub(asset_contributions[a],
                   RSum([t \in Boundaries |-> Term(a, t)], Boundaries)) = AnchorTerm(a)

(***************************************************************************)
(* The lists of the report.                                                *)
(***************************************************************************)
DetailedReturned == pc = "d_done"

IdsOf(q) == { q[k].asset_id : k \in DOMAIN q }
NoDuplicate(q) == \A j, k \in DOMAIN q : j # k => q[j].asset_id # q[k].asset_id
Descending(q) ==
    \A k \in DOMAIN q : k < Len(q) => RLe(q[k + 1].contribution, q[k].contribution)

\* every entry of the list q is an asset of details with its contribution
EntriesOf(details, q) ==
    \A k \in DOMAIN q : \E j \in DOMAIN details :
        /\ details[j].asset_id = q[k].asset_id
        /\ details[j].contribution = q[k].contribution

Ranked(details, contributors, detractors) ==
    /\ IdsOf(contributors) =
         { details[j].asset_id : j \in { k \in DOMAIN details : RPos(details[k].contribution) } }
    /\ IdsOf(detractors) =
         { details[j].asset_id : j \in { k \in DOMAIN details : RNegative(details[k].contribution) } }
    /\ EntriesOf(details, contributors)
    /\ EntriesOf(details, detractors)
    /\ NoDuplicate(contributors \o detractors)
    /\ Descending(contributors)
    /\ Descending(detractors)

\* C14: in the basic and in the detailed report top_contributors holds exactly
\* the assets with contribution > 0 and top_detractors exactly those with
\* contribution < 0, each in descending order of contribution, no asset twice
\* or in both lists, an asset with contribution 0 in neither.
C14_TopListsPartitionBySign ==
    /\ Returned => Ranked(asset_details, top_contributors, top_detractors)
    /\ DetailedReturned =>
         Ranked(asset_details, detailed_result.top_contributors,
                detailed_result.top_detractors)

\* a detailed report of two assets, one with contribution exactly 0 although it
\* is held, the other one ranked
C14_Witness ==
    /\ DetailedReturned
    /\ Len(asset_details) = 2
    /\ \E j \in DOMAIN asset_details :
         /\ asset_details[j].contribution = Zero
         /\ RPos(asset_details[j].avg_weight)
    /\ Len(detailed_result.top_contributors) + Len(detailed_result.top_detractors) = 1

(***************************************************************************)
(* The class rollup.                                                       *)
(***************************************************************************)
\* the number of places of the asset id in the asset lists of the classes
Occurrences(classes, id) ==
    Cardinality({ kj \in (DOMAIN classes) \X (1..Cardinality(Assets)) :
                    /\ kj[2] \in DOMAIN classes[kj[1]].assets
                    /\ classes[kj[1]].assets[kj[2]].asset_id = id })

Rollup(details, classes, check) ==
    /\ SeqSum(classes, "contribution") = check
    /\ check = SeqSum(details, "contribution")
    /\ \A j \in DOMAIN details : Occurrences(classes, details[j].asset_id) = 1
    /\ \A k \in DOMAIN classes : \A j \in DOMAIN classes[k].assets :
         classes[k].assets[j].asset_class = classes[k].asset_class

\* C16: in the basic and in the detailed report the contributions of the
\* returned classes sum to total_contribution_check, the sum over the assets
\* of the report, and every asset of the report is in exactly one class.
C16_ClassRollupIdentity ==
    /\ Returned => Rollup(asset_details, asset_class_list, total_contribution_check)
    /\ DetailedReturned =>
         Rollup(filtered_assets, detailed_result.asset_class_contributions,
                detailed_result.total_contribution_check)

\* a detailed report whose single class adds up two assets with different
\* nonzero contributions
C16_Witness ==
    /\ DetailedReturned
    /\ Len(detailed_result.asset_class_contributions) = 1
    /\ Len(filtered_assets) = 2
    /\ filtered_assets[1].contribution # filtered_assets[2].contribution

\* C17: in the detailed report the avg_weight of every returned class is the
\* sum of avg_weight over all assets of the class with position rows in the
\* window, those with contribution exactly 0 included.
C17_ClassAvgWeightCoversAllAssets ==
    DetailedReturned =>
        \A k \in DOMAIN detailed_result.asset_class_contributions :
            LET c == detailed_result.asset_class_contributions[k]
            IN  c.avg_weight = SeqSum(ClassAssets(asset_details, c.asset_class), "avg_weight")

(***************************************************************************)
(* The asset filter.                                                       *)
(***************************************************************************)
PassesFilter(a) == asset_filter = "all" \/ Region(a) = asset_filter

\* the market value of the assets that pass the filter, of one class or of all
FilteredMV(d, S) ==
    RSum([a \in Assets |-> IF a \in S /\ PassesFilter(a) THEN RefMV(d, a) ELSE Zero], Assets)

FilteredWeightPct(d, S) ==
    IF RPos(FilteredMV(d, Assets))
    THEN RMul(RDiv(FilteredMV(d, S), FilteredMV(d, Assets)), Hundred)
    ELSE Zero

ClassMembers(ac) == { a \in Assets : AssetClass[a] = ac }

\* the mean over the dates but the last with a positive filtered total
FilteredAvgWeight(S) ==
    LET dates == { d \in RowDates \ {LastDate} : RPos(FilteredMV(d, Assets)) }
    IN  IF dates = {} THEN Zero
        ELSE RDiv(RSum([d \in dates |-> FilteredWeightPct(d, S)], dates),
                  R(Cardinality(dates)))

\* C18: a detailed call with filter DOMESTIC or FOREIGN over a window with
\* position rows returns a report whose class weights (weight_trend,
\* current_allocation, avg_weight) are taken against the market value of the
\* assets that pass the filter only.
C18_FilterAppliedBeforeAggregation ==
    (pc \in {"d_done", "raised"} /\ asset_filter # "all" /\ RowDates # {}) =>
        /\ DetailedReturned
        /\ \A k \in DOMAIN detailed_result.asset_class_contributions :
             LET c == detailed_result.asset_class_contributions[k]
                 S == ClassMembers(c.asset_class)
             IN  /\ c.current_allocation = FilteredWeightPct(LastDate, S)
                 /\ c.avg_weight = FilteredAvgWeight(S)
                 /\ \A j \in DOMAIN c.weight_trend :
                      c.weight_trend[j].weight = FilteredWeightPct(c.weight_trend[j].date, S)

(***************************************************************************)
(* Repeated calls.                                                         *)
(***************************************************************************)
\* C20: a second call with the same positions, prices, asset rows, window and
\* filter returns a report identical to the first one, the order of the
\* entries of every list included.
C20_SecondCallReturnsSameReport ==
    (Returned /\ DOMAIN previous_result # {}) => Report = previous_result

(***************************************************************************)
(* A price gap between two priced dates.                                   *)
(***************************************************************************)
\* the snapshot date after m
NextDate(m) == CHOOSE t \in RowDates : t > m /\ \A e \in RowDates : e > m => t <= e

\* m lies between two snapshot dates of the window, asset a is held with
\* positive weight on the date before m and on m, is priced on the dates
\* before and after m and has no price on m
PriceGap(a, m) ==
    /\ Price[m][a] = None
    /\ m \in Boundaries
    /\ \E t \in RowDates : t > m
    /\ RPos(RefWeight(PrevDate(m), a))
    /\ RPos(RefWeight(m, a))
    /\ Truthy(Price[PrevDate(m)][a])
    /\ Truthy(Price[NextDate(m)][a])

\* the entry of the daily returns of date t
EntryOf(t) == daily_returns[CHOOSE k \in DOMAIN daily_returns : daily_returns[k].date = t]

\* the portfolio return of the boundary ending on t without the term of asset a
ReturnWithout(a, t) ==
    RMul(RSum([b \in Assets |-> IF b = a THEN Zero ELSE Term(b, t)], Assets), Hundred)

\* C27: an asset held with positive weight, priced on D-1 and D+1 and not on D,
\* gets 0 on the boundaries (D-1, D) and (D, D+1), and the price change from
\* D-1 to D+1 enters its contribution and total_twr on no other boundary.
C27_PriceGapChangeIsNeverAttributed ==
    Returned =>
        \A a \in RowAssets : \A m \in RowDates :
            PriceGap(a, m) =>
                LET t == NextDate(m)
                    others == Boundaries \ {m, t}
                IN  /\ asset_contributions[a] = RSum([u \in others |-> Term(a, u)], others)
                    /\ EntryOf(m).daily_return = ReturnWithout(a, m)
                    /\ EntryOf(t).daily_return = ReturnWithout(a, t)
                    /\ total_twr = TotalTwr(daily_returns)

\* asset 1 is held over a gap across which its price has changed
C27_Witness ==
    /\ Returned
    /\ \E m \in RowDates :
         /\ PriceGap(1, m)
         /\ Price[PrevDate(m)][1] # Price[NextDate(m)][1]
         /\ asset_contributions[1] = Zero

(***************************************************************************)
(* The allocations of the classes of the detailed report.                  *)
(***************************************************************************)
\* the classes with positive market value on the latest snapshot date
ClassesHeldAtEnd ==
    { AssetClass[a] : a \in { b \in Assets : RPos(RefMV(LastDate, b)) } }

\* C28: in a detailed report with filter ALL every class with positive market
\* value on the latest snapshot date is returned, and when the total market
\* value of that date is positive the current_allocation of the returned
\* classes sums to 100.
C28_ClassAllocationsSumTo100 ==
    (DetailedReturned /\ asset_filter = "all") =>
        /\ ClassesHeldAtEnd \subseteq
             { detailed_result.asset_class_contributions[k].asset_class :
                 k \in DOMAIN detailed_result.asset_class_contributions }
        /\ RPos(RefTotal(LastDate)) =>
             SeqSum(detailed_result.asset_class_contributions, "current_allocation") = Hundred

(***************************************************************************)
(* The list of daily returns.                                              *)
(***************************************************************************)
\* C29: daily_returns has exactly one entry for each snapshot date of the
\* window, in strictly ascending date order, the first with daily_return 0.
C29_OneDailyReturnPerSnapshotDate ==
    Returned =>
        /\ [k \in DOMAIN daily_returns |-> daily_returns[k].date] = SortedSeq(RowDates)
        /\ daily_returns[1].daily_return = Zero

(***************************************************************************)
(* The snapshot tables.                                                    *)
(***************************************************************************)
\* C22: after any sequence of snapshot_portfolio_date calls, repeated calls
\* for the same date included, there is at most one position row per
\* (as_of_date, asset_id) and at most one NAV row per as_of_date.
C22_OneRowPerKey ==
    /\ \A j, k \in DOMAIN position_rows :
         (position_rows[j].as_of_date = position_rows[k].as_of_date
            /\ position_rows[j].asset_id = position_rows[k].asset_id) => j = k
    /\ \A j, k \in DOMAIN PortfolioNavDaily :
         PortfolioNavDaily[j].as_of_date = PortfolioNavDaily[k].as_of_date => j = k

\* the snapshot of one date was taken twice and the date has rows of both assets
C22_Witness ==
    /\ Len(attempted) = 2
    /\ attempted[1] = attempted[2]
    /\ \A a \in Assets : \E k \in DOMAIN position_rows :
         position_rows[k].as_of_date = attempted[1][1] /\ position_rows[k].asset_id = a
    /\ \E k \in DOMAIN PortfolioNavDaily : PortfolioNavDaily[k].as_of_date = attempted[1][1]

RowsOf(d) == { k \in DOMAIN position_rows : position_rows[k].as_of_date = d }

AllPairs(days, ps) ==
    [k \in 1..(Len(days) * Len(ps)) |->
        <<days[((k - 1) \div Len(ps)) + 1], ps[((k - 1) % Len(ps)) + 1]>>]

BatchDone == pc = "b_done"

\* C30: run_full_snapshot_krx calls snapshot_portfolio_date for every
\* (trading day, portfolio) pair, days ascending, each pair exactly once; a
\* call that raises is logged and the remaining pairs are still attempted;
\* the run always terminates.
C30_EveryPairAttemptedOnce ==
    /\ [](BatchDone =>
            /\ attempted = AllPairs(trading_days, pids)
            /\ Range(pids) = (IF trading_days = <<>> THEN {} ELSE ValidIds)
            /\ logged = SelectSeq(attempted, LAMBDA x : x \in raising))
    /\ <>BatchDone

\* the first of four calls raised and the other three were still made
C30_Witness ==
    /\ BatchDone
    /\ Len(attempted) = 4
    /\ logged # <<>>
    /\ logged[1] = attempted[1]

(***************************************************************************)
(* The specific-period endpoint.                                           *)
(***************************************************************************)
Responded == pc = "h_done"

\* C25: the specific-period endpoint answers start_date >= end_date with
\* status 400, and a non-existent portfolio or a period without position
\* data with status 404, and the client receives that status code.
C25_ClientErrorsKeepTheirStatus ==
    Responded =>
        /\ ~PortfolioFound => status_code = 404
        /\ PortfolioFound /\ request.start_date >= request.end_date => status_code = 400
        /\ PortfolioFound /\ request.start_date < request.end_date /\ position_count = 0
              => status_code = 404

(***************************************************************************)
(* The period returns.                                                     *)
(***************************************************************************)
\* (1 + r_1 / 100) * ... * (1 + r_k / 100) of the first k daily points
RECURSIVE CompoundDaily(_, _)
CompoundDaily(points, k) ==
    IF k = 0 THEN One
    ELSE RMul(CompoundDaily(points, k - 1), RAdd(One, RDiv(points[k].daily_return, Hundred)))

AllNavPositive == \A j \in DOMAIN all_nav_data : RPos(all_nav_data[j].nav)

NavInPeriod == {j \in DOMAIN all_nav_data : InPeriod(all_nav_data[j], period[1], period[2])}
NavBeforePeriod == {j \in DOMAIN all_nav_data : all_nav_data[j].as_of_date < period[1]}

Max(S) == CHOOSE x \in S : \A y \in S : y <= x
Min(S) == CHOOSE x \in S : \A y \in S : x <= y

\* the record both returns are measured from
BaseNav ==
    IF NavBeforePeriod # {} THEN all_nav_data[Max(NavBeforePeriod)].nav
    ELSE all_nav_data[Min(NavInPeriod)].nav

PerfDone == pc = "p_done"

\* C26: for a date-ordered series of positive NAVs the cumulative return of
\* the period equals the compounding of the daily returns of the period,
\* both measured from the last NAV before start_date when there is one and
\* from the first NAV of the period otherwise, and every daily point is
\* dated within the period.
C26_CumulativeIsCompoundedDaily ==
    PerfDone /\ AllNavPositive =>
        /\ cumulative_return =
              RMul(RSub(CompoundDaily(period_daily_returns, Len(period_daily_returns)), One),
                   Hundred)
        /\ \A k \in DOMAIN period_daily_returns :
              /\ period[1] <= period_daily_returns[k].date
              /\ period_daily_returns[k].date <= period[2]
        /\ NavInPeriod # {} =>
              /\ cumulative_return =
                    RMul(RDiv(RSub(all_nav_data[Max(NavInPeriod)].nav, BaseNav), BaseNav),
                         Hundred)
              /\ Len(period_daily_returns) =
                    Cardinality(NavInPeriod) - (IF NavBeforePeriod # {} THEN 0 ELSE 1)

\* two days of the period after a NAV before it, with a return that is not 0
C26_Witness ==
    /\ PerfDone
    /\ AllNavPositive
    /\ NavBeforePeriod # {}
    /\ Len(period_daily_returns) = 2
    /\ cumulative_return # Zero
    /\ period_daily_returns[1].daily_return # Zero

====
